---- MODULE Spec2Model ----
(***************************************************************************)
(* Model of src/fastfood.py: the pipeline run by main() -- load a CSV into *)
(* a SQLite table, read it back, per-restaurant calorie statistics, the    *)
(* ranking by average carbohydrates, the chart, the keyword classifier     *)
(* (category, sub_category) and the CSV export.                            *)
(*                                                                         *)
(* Python strings are sequences of one-character strings, so that          *)
(* str.lower(), the `in` substring test, ','.join and the ordering of      *)
(* strings are computed and not assumed.                                   *)
(***************************************************************************)
EXTENDS Integers, Sequences, FiniteSets, TLC

VARIABLES csv, db, out_writable, out_file, pc, create_ret, data, calorie_stats, ranked_restaurants, plot_ret, categorized_data, export_ret, log

vars == <<csv, db, out_writable, out_file, pc, create_ret, data, calorie_stats, ranked_restaurants, plot_ret, categorized_data, export_ret, log>>

(***************************************************************************)
(* Bounds of the model.                                                    *)
(***************************************************************************)
\* item names of the classifier inputs are built from at most MaxFrags fragments
MaxFrags == 2
\* number of restaurants in the aggregation inputs
NumRestaurants == 6

(***************************************************************************)
(* Strings.                                                                *)
(***************************************************************************)
UpperChars == <<"A","B","C","D","E","F","G","H","I","J","K","L","M","N","O","P","Q","R","S","T","U","V","W","X","Y","Z">>

LowerChars == <<"a","b","c","d","e","f","g","h","i","j","k","l","m","n","o","p","q","r","s","t","u","v","w","x","y","z">>

Digits == <<"0","1","2","3","4","5","6","7","8","9">>

\* the characters used, in code point order (Python compares strings by code point)
CodePoints == <<" ", ",", "/">> \o Digits \o UpperChars \o LowerChars

Ord(c) == CHOOSE i \in 1..Len(CodePoints) : CodePoints[i] = c

\* str.lower() on one character
lower_char(c) == IF \E i \in 1..Len(UpperChars) : UpperChars[i] = c THEN LowerChars[CHOOSE i \in 1..Len(UpperChars) : UpperChars[i] = c] ELSE c

\* str.lower()
lower(s) == [i \in 1..Len(s) |-> lower_char(s[i])]

\* does sub occur in s at position i
match_at(sub, s, i) == i + Len(sub) - 1 <= Len(s) /\ SubSeq(s, i, i + Len(sub) - 1) = sub

RECURSIVE find_from(_, _, _)
\* left-to-right search for sub in s, starting at i
find_from(sub, s, i) == IF i + Len(sub) - 1 > Len(s) THEN FALSE ELSE IF match_at(sub, s, i) THEN TRUE ELSE find_from(sub, s, i + 1)

\* Python's `sub in s` for strings
str_in(sub, s) == find_from(sub, s, 1)

RECURSIVE str_less(_, _)
\* Python's a < b for strings
str_less(a, b) == IF Len(b) = 0 THEN FALSE ELSE IF Len(a) = 0 THEN TRUE ELSE IF Ord(Head(a)) # Ord(Head(b)) THEN Ord(Head(a)) < Ord(Head(b)) ELSE str_less(Tail(a), Tail(b))

RECURSIVE join(_, _)
\* sep.join(parts)
join(sep, parts) == IF Len(parts) = 0 THEN <<>> ELSE IF Len(parts) = 1 THEN parts[1] ELSE parts[1] \o sep \o join(sep, Tail(parts))

RECURSIVE concat(_)
\* concatenation of a sequence of strings
concat(parts) == IF Len(parts) = 0 THEN <<>> ELSE Head(parts) \o concat(Tail(parts))

(***************************************************************************)
(* String literals of the source.                                          *)
(***************************************************************************)
s_Main == <<"M","a","i","n">>

s_Side == <<"S","i","d","e">>

s_Dessert == <<"D","e","s","s","e","r","t">>

s_Other == <<"O","t","h","e","r">>

s_Chicken == <<"C","h","i","c","k","e","n">>

s_Beef == <<"B","e","e","f">>

s_Seafood == <<"S","e","a","f","o","o","d">>

s_Pork == <<"P","o","r","k">>

kw_chicken == <<"c","h","i","c","k","e","n">>

kw_beef == <<"b","e","e","f">>

kw_seafood == <<"s","e","a","f","o","o","d">>

kw_pork == <<"p","o","r","k">>

main_keywords == << <<"b","u","r","g","e","r">>, <<"s","a","n","d","w","i","c","h">>, <<"p","i","z","z","a">> >>

side_keywords == << <<"f","r","i","e","s">>, <<"s","a","l","a","d">> >>

dessert_keywords == << <<"i","c","e"," ","c","r","e","a","m">>, <<"c","a","k","e">> >>

\* Python's any(keyword in s for keyword in keywords)
any_keyword_in(keywords, s) == \E k \in 1..Len(keywords) : str_in(keywords[k], s)

(***************************************************************************)
(* Values: None, a DataFrame, the cells of a column.                       *)
(***************************************************************************)
None == [tag |-> "None"]

DataFrame(rows) == [tag |-> "DataFrame", rows |-> rows]

IsNone(x) == x.tag = "None"

IsFrame(x) == x.tag = "DataFrame"

\* a numeric cell and a cell read as text
Num(n) == [t |-> "num", v |-> n]

Text(s) == [t |-> "str", v |-> s]

Row(restaurant, item, calories, total_carb) == [restaurant |-> restaurant, item |-> item, calories |-> calories, total_carb |-> total_carb]

\* an average, kept exact: the fraction num/den in lowest terms
RECURSIVE gcd(_, _)
gcd(a, b) == IF b = 0 THEN a ELSE gcd(b, a % b)

Frac(n, d) == [num |-> n \div gcd(n, d), den |-> d \div gcd(n, d)]

frac_less(a, b) == a.num * b.den < b.num * a.den

(***************************************************************************)
(* pd.read_csv: a column whose cells all read as integers becomes a        *)
(* numeric column, any other column keeps its cells as text.               *)
(***************************************************************************)
is_digit(c) == \E i \in 1..Len(Digits) : Digits[i] = c

digit_value(c) == (CHOOSE i \in 1..Len(Digits) : Digits[i] = c) - 1

is_int_text(s) == Len(s) > 0 /\ \A i \in 1..Len(s) : is_digit(s[i])

RECURSIVE parse_int(_)
parse_int(s) == IF Len(s) = 0 THEN 0 ELSE 10 * parse_int(SubSeq(s, 1, Len(s) - 1)) + digit_value(s[Len(s)])

column_is_int(lines, col) == \A i \in 1..Len(lines) : is_int_text(lines[i][col])

read_cell(lines, col, i) == IF column_is_int(lines, col) THEN Num(parse_int(lines[i][col])) ELSE Text(lines[i][col])

read_csv(lines) == [i \in 1..Len(lines) |-> Row(lines[i].restaurant, lines[i].item, read_cell(lines, "calories", i), read_cell(lines, "total_carb", i))]

(***************************************************************************)
(* The classifier.                                                         *)
(***************************************************************************)
\* categorize_item with the Side group tested before the Main group
categorize_item_side_first(row) == IF any_keyword_in(side_keywords, lower(row.item)) THEN s_Side ELSE IF any_keyword_in(main_keywords, lower(row.item)) THEN s_Main ELSE IF any_keyword_in(dessert_keywords, lower(row.item)) THEN s_Dessert ELSE s_Other

categorize_item(row) == IF any_keyword_in(main_keywords, lower(row.item)) THEN s_Main ELSE IF any_keyword_in(side_keywords, lower(row.item)) THEN s_Side ELSE IF any_keyword_in(dessert_keywords, lower(row.item)) THEN s_Dessert ELSE s_Other

\* DataFrame.apply(f, axis=1) assigned to a new column: on a frame without rows
\* apply returns a copy of the frame, not a column, and the assignment raises
apply_raises(frame) == Len(frame.rows) = 0

categorize_food_items(frame) == IF IsNone(frame) \/ apply_raises(frame) THEN None ELSE DataFrame([i \in 1..Len(frame.rows) |-> ("category" :> categorize_item(frame.rows[i])) @@ frame.rows[i]])

\* subcategories.append(label) when keyword occurs in the lower-cased item
append_if(subcategories, keyword, label, item) == IF str_in(keyword, lower(item)) THEN Append(subcategories, label) ELSE subcategories

\* the list after the four protein tests (lines 153-160)
protein_labels(item) == append_if(append_if(append_if(append_if(<<>>, kw_chicken, s_Chicken, item), kw_beef, s_Beef, item), kw_seafood, s_Seafood, item), kw_pork, s_Pork, item)

\* lines 161-162: all(subcategory not in item.lower() for subcategory in subcategories)
append_other(subcategories, item) == IF \A k \in 1..Len(subcategories) : ~str_in(subcategories[k], lower(item)) THEN Append(subcategories, s_Other) ELSE subcategories

\* get_subcategory that never falls back to Other
get_subcategory_no_other(row) == IF row.category = s_Main THEN join(<<",">>, protein_labels(row.item)) ELSE join(<<",">>, <<>>)

get_subcategory(row) == IF row.category = s_Main THEN join(<<",">>, append_other(protein_labels(row.item), row.item)) ELSE join(<<",">>, <<>>)

\* row['category'] raises KeyError on a frame that was never categorized
has_category(frame) == \A i \in 1..Len(frame.rows) : "category" \in DOMAIN frame.rows[i]

add_subcategory(frame) == IF IsNone(frame) \/ apply_raises(frame) \/ ~has_category(frame) THEN None ELSE DataFrame([i \in 1..Len(frame.rows) |-> ("sub_category" :> get_subcategory(frame.rows[i])) @@ frame.rows[i]])

(***************************************************************************)
(* The aggregator.                                                         *)
(***************************************************************************)
\* the least string of a non-empty set of strings
least_key(keys) == CHOOSE k \in keys : \A o \in keys : o = k \/ str_less(k, o)

RECURSIVE sorted_keys(_)
sorted_keys(keys) == IF keys = {} THEN <<>> ELSE <<least_key(keys)>> \o sorted_keys(keys \ {least_key(keys)})

\* groupby('restaurant'): the distinct values of the column, sorted (sort=True)
group_keys(rows) == sorted_keys({rows[i].restaurant : i \in 1..Len(rows)})

\* the values of column col in the group of key, in row order
group_values(rows, key, col) == LET members == SelectSeq(rows, LAMBDA r : r.restaurant = key) IN [i \in 1..Len(members) |-> members[i][col].v]

RECURSIVE sum_of(_)
sum_of(values) == IF Len(values) = 0 THEN 0 ELSE Head(values) + sum_of(Tail(values))

\* a minimum that is the group's first value
min_of_first(values) == values[1]

RECURSIVE min_of(_)
min_of(values) == IF Len(values) = 1 THEN values[1] ELSE IF Head(values) <= min_of(Tail(values)) THEN Head(values) ELSE min_of(Tail(values))

RECURSIVE max_of(_)
max_of(values) == IF Len(values) = 1 THEN values[1] ELSE IF Head(values) >= max_of(Tail(values)) THEN Head(values) ELSE max_of(Tail(values))

mean_of(values) == Frac(sum_of(values), Len(values))

\* a column read as text makes the numeric aggregation raise
column_is_numeric(rows, col) == \A i \in 1..Len(rows) : rows[i][col].t = "num"

calculate_calorie_stats(frame) == IF IsNone(frame) \/ ~column_is_numeric(frame.rows, "calories") THEN None ELSE LET keys == group_keys(frame.rows) IN DataFrame([k \in 1..Len(keys) |-> [restaurant |-> keys[k], mean |-> mean_of(group_values(frame.rows, keys[k], "calories")), min |-> min_of(group_values(frame.rows, keys[k], "calories")), max |-> max_of(group_values(frame.rows, keys[k], "calories"))]])

\* groupby('restaurant')['total_carb'].mean(): one entry per key, in key order
carb_means(rows) == LET keys == group_keys(rows) IN [k \in 1..Len(keys) |-> [restaurant |-> keys[k], total_carb |-> mean_of(group_values(rows, keys[k], "total_carb"))]]

\* the entries of a set that no other entry is smaller than
least_entries(entries) == {e \in entries : \A o \in entries : ~frac_less(o.total_carb, e.total_carb)}

RECURSIVE ascending_orders(_)
\* sort_values() sorts with kind='quicksort', which is not stable: entries of
\* equal value come out in an order that the build of the sort decides
ascending_orders(entries) == IF entries = {} THEN {<<>>} ELSE UNION {{<<e>> \o rest : rest \in ascending_orders(entries \ {e})} : e \in least_entries(entries)}

sort_values(series) == ascending_orders({series[i] : i \in 1..Len(series)})

\* the last n rows
tail(rows, n) == IF Len(rows) <= n THEN rows ELSE SubSeq(rows, Len(rows) - n + 1, Len(rows))

\* the first n rows
head(rows, n) == IF Len(rows) <= n THEN rows ELSE SubSeq(rows, 1, n)

\* head(5)
TopN == 5

\* the values rank_restaurants_by_carbs can return
rank_restaurants_by_carbs(frame) == IF IsNone(frame) \/ ~column_is_numeric(frame.rows, "total_carb") THEN {None} ELSE {DataFrame(head(sorted, TopN)) : sorted \in sort_values(carb_means(frame.rows))}

(***************************************************************************)
(* The files, and what the log records.                                    *)
(***************************************************************************)
\* a local of main() that has not been assigned yet
Unset == [tag |-> "Unset"]

Missing == [tag |-> "Missing"]

File(lines) == [tag |-> "File", lines |-> lines]

NoTable == [tag |-> "NoTable"]

Table(rows) == [tag |-> "Table", rows |-> rows]

Line(restaurant, item, calories, total_carb) == [restaurant |-> restaurant, item |-> item, calories |-> calories, total_carb |-> total_carb]

Info(op) == [level |-> "INFO", op |-> op]

Error(op) == [level |-> "ERROR", op |-> op]

(***************************************************************************)
(* main(): one action per call, in the order of lines 194-201.             *)
(***************************************************************************)
\* create_database, line 194: read_csv raises when the file cannot be read,
\* the except clause logs it and the table is left as it was
CreateDatabase == /\ pc = "create"
                  /\ db' = IF csv.tag = "File" THEN Table(read_csv(csv.lines)) ELSE db
                  /\ log' = Append(log, IF csv.tag = "File" THEN Info("create_database") ELSE Error("create_database"))
                  /\ create_ret' = None
                  /\ pc' = "read"
                  /\ UNCHANGED <<csv, out_writable, out_file, data, calorie_stats, ranked_restaurants, plot_ret, categorized_data, export_ret>>

\* read_data_from_database, line 195: the SELECT raises when there is no table
ReadData == /\ pc = "read"
            /\ data' = IF db.tag = "Table" THEN DataFrame(db.rows) ELSE None
            /\ log' = Append(log, IF db.tag = "Table" THEN Info("read_data_from_database") ELSE Error("read_data_from_database"))
            /\ pc' = "stats"
            /\ UNCHANGED <<csv, db, out_writable, out_file, create_ret, calorie_stats, ranked_restaurants, plot_ret, categorized_data, export_ret>>

\* calculate_calorie_stats that ends the run when the aggregation raises
CalorieStatsAborting == /\ pc = "stats"
                        /\ calorie_stats' = calculate_calorie_stats(data)
                        /\ log' = Append(log, IF IsNone(calorie_stats') THEN Error("calculate_calorie_stats") ELSE Info("calculate_calorie_stats"))
                        /\ pc' = IF IsNone(calorie_stats') THEN "done" ELSE "rank"
                        /\ UNCHANGED <<csv, db, out_writable, out_file, create_ret, data, ranked_restaurants, plot_ret, categorized_data, export_ret>>

\* calculate_calorie_stats, line 196
CalorieStats == /\ pc = "stats"
                /\ calorie_stats' = calculate_calorie_stats(data)
                /\ log' = Append(log, IF IsNone(calorie_stats') THEN Error("calculate_calorie_stats") ELSE Info("calculate_calorie_stats"))
                /\ pc' = "rank"
                /\ UNCHANGED <<csv, db, out_writable, out_file, create_ret, data, ranked_restaurants, plot_ret, categorized_data, export_ret>>

\* rank_restaurants_by_carbs, line 197
RankRestaurants == /\ pc = "rank"
                   /\ ranked_restaurants' \in rank_restaurants_by_carbs(data)
                   /\ log' = Append(log, IF IsNone(ranked_restaurants') THEN Error("rank_restaurants_by_carbs") ELSE Info("rank_restaurants_by_carbs"))
                   /\ pc' = "plot"
                   /\ UNCHANGED <<csv, db, out_writable, out_file, create_ret, data, calorie_stats, plot_ret, categorized_data, export_ret>>

\* plot_top_restaurants_chart, line 198: subscripting None raises
PlotChart == /\ pc = "plot"
             /\ log' = Append(log, IF IsNone(ranked_restaurants) THEN Error("plot_top_restaurants_chart") ELSE Info("plot_top_restaurants_chart"))
             /\ plot_ret' = None
             /\ pc' = "categorize"
             /\ UNCHANGED <<csv, db, out_writable, out_file, create_ret, data, calorie_stats, ranked_restaurants, categorized_data, export_ret>>

\* categorize_food_items, line 199: the column is added to the frame that data
\* names, and that frame is returned
Categorize == /\ pc = "categorize"
              /\ categorized_data' = categorize_food_items(data)
              /\ data' = IF IsNone(categorized_data') THEN data ELSE categorized_data'
              /\ log' = Append(log, IF IsNone(categorized_data') THEN Error("categorize_food_items") ELSE Info("categorize_food_items"))
              /\ pc' = "subcategory"
              /\ UNCHANGED <<csv, db, out_writable, out_file, create_ret, calorie_stats, ranked_restaurants, plot_ret, export_ret>>

\* add_subcategory, line 200: again in place
AddSubcategory == /\ pc = "subcategory"
                  /\ categorized_data' = add_subcategory(categorized_data)
                  /\ data' = IF IsNone(categorized_data') THEN data ELSE categorized_data'
                  /\ log' = Append(log, IF IsNone(categorized_data') THEN Error("add_subcategory") ELSE Info("add_subcategory"))
                  /\ pc' = "export"
                  /\ UNCHANGED <<csv, db, out_writable, out_file, create_ret, calorie_stats, ranked_restaurants, plot_ret, export_ret>>

\* to_csv raises on None and on a path that cannot be written
export_fails == IsNone(categorized_data) \/ ~out_writable

\* export_categorized_data_to_csv, line 201
ExportCsv == /\ pc = "export"
             /\ out_file' = IF export_fails THEN out_file ELSE File(categorized_data.rows)
             /\ log' = Append(log, IF export_fails THEN Error("export_categorized_data_to_csv") ELSE Info("export_categorized_data_to_csv"))
             /\ export_ret' = None
             /\ pc' = "done"
             /\ UNCHANGED <<csv, db, out_writable, create_ret, data, calorie_stats, ranked_restaurants, plot_ret, categorized_data>>

Next == CreateDatabase \/ ReadData \/ CalorieStats \/ RankRestaurants \/ PlotChart \/ Categorize \/ AddSubcategory \/ ExportCsv

\* the locals of main() before line 194
InitLocals == /\ pc = "create"
              /\ out_file = Missing
              /\ create_ret = Unset
              /\ data = Unset
              /\ calorie_stats = Unset
              /\ ranked_restaurants = Unset
              /\ plot_ret = Unset
              /\ categorized_data = Unset
              /\ export_ret = Unset
              /\ log = <<>>

(***************************************************************************)
(* Inputs: the item names of the classifier.                               *)
(***************************************************************************)
Fragments == {<<"C","h","i","c","k","e","n">>, <<"b","e","e","f">>, <<"P","O","R","K">>, <<"S","e","a","f","o","o","d">>, <<"B","u","r","g","e","r">>, <<"p","i","z","z","a">>, <<"F","r","i","e","s">>, <<"S","a","l","a","d">>, <<"I","C","E"," ">>, <<"c","r","e","a","m">>, <<"c","a","k","e">>, <<"P","a","n">>, <<" ">>, <<"S","a","n","d","w","i","c","h">>}

ExampleItems == {<<"C","h","i","c","k","e","n"," ","S","a","n","d","w","i","c","h">>, <<"B","e","e","f"," ","a","n","d"," ","P","o","r","k"," ","B","u","r","g","e","r">>, <<"S","i","d","e"," ","S","a","l","a","d">>, <<"M","y","s","t","e","r","y"," ","I","t","e","m">>, <<"I","c","e"," ","C","r","e","a","m"," ","C","a","k","e">>, <<"P","a","n","c","a","k","e","s">>, <<"S","e","a","f","o","o","d"," ","P","i","z","z","a">>}

\* the names made of at most MaxFrags fragments, and the examples
ItemNames == ExampleItems \cup UNION {{concat(f) : f \in [1..n -> Fragments]} : n \in 0..MaxFrags}

\* one file per item name, and one file that holds every example
ClassifyInputs == {<<Line(<<"A">>, name, <<"1","0","0">>, <<"1","0">>)>> : name \in ItemNames} \cup {<<Line(<<"A">>, <<"C","h","i","c","k","e","n"," ","S","a","n","d","w","i","c","h">>, <<"1","0","0">>, <<"1","0">>), Line(<<"B">>, <<"B","e","e","f"," ","a","n","d"," ","P","o","r","k"," ","B","u","r","g","e","r">>, <<"2","0","0">>, <<"2","0">>), Line(<<"A">>, <<"S","i","d","e"," ","S","a","l","a","d">>, <<"5","0">>, <<"5">>), Line(<<"B">>, <<"M","y","s","t","e","r","y"," ","I","t","e","m">>, <<"7","0">>, <<"7">>), Line(<<"A">>, <<"C","h","e","e","s","e"," ","P","i","z","z","a">>, <<"4","0">>, <<"4">>)>>}

InitClassify == /\ csv \in {File(lines) : lines \in ClassifyInputs}
                /\ db = NoTable
                /\ out_writable = TRUE
                /\ InitLocals

SpecClassify == InitClassify /\ [][Next]_vars

(***************************************************************************)
(* Inputs: the record sets of the aggregator.                              *)
(***************************************************************************)
\* names that differ in case and in a trailing blank are different restaurants
RestaurantNames == <<<<"M","c">>, <<"B">>, <<"b">>, <<"B"," ">>, <<"A">>, <<"S","u","b">>, <<"K","F","C">>, <<"T","a","c","o">>>>

\* the records of restaurant i: none, one, or two whose average i + 1 is that of
\* the next restaurant's single record; the first two restaurants may also
\* have two records whose average is not a whole number
Profiles(i) == {<<>>, <<[cal |-> i, carb |-> i]>>, <<[cal |-> i + 2, carb |-> i + 2], [cal |-> i, carb |-> i]>>} \cup (IF i <= 2 THEN {<<[cal |-> i, carb |-> i], [cal |-> i + 1, carb |-> i + 1]>>} ELSE {})

\* calories are written as hundreds
ProfileLine(i, rec) == Line(RestaurantNames[i], <<"F","r","i","e","s">>, <<Digits[rec.cal + 1], "0", "0">>, <<Digits[rec.carb + 1]>>)

RECURSIVE NthLines(_, _, _)
\* the n-th record of each restaurant from i on that has one
NthLines(profile, n, i) == IF i > NumRestaurants THEN <<>> ELSE (IF Len(profile[i]) >= n THEN <<ProfileLine(i, profile[i][n])>> ELSE <<>>) \o NthLines(profile, n, i + 1)

\* the restaurants' first records, then their second records
ProfileLines(profile) == NthLines(profile, 1, 1) \o NthLines(profile, 2, 1)

RECURSIVE ProfileChoicesUpTo(_)
\* one profile for each of the restaurants 1..n
ProfileChoicesUpTo(n) == IF n = 0 THEN {<<>>} ELSE {Append(profile, p) : profile \in ProfileChoicesUpTo(n - 1), p \in Profiles(n)}

ProfileChoices == ProfileChoicesUpTo(NumRestaurants)

\* one restaurant with calories 100, 200, 300
StatsExample == <<Line(<<"M","c">>, <<"X">>, <<"1","0","0">>, <<"1">>), Line(<<"M","c">>, <<"X">>, <<"2","0","0">>, <<"2">>), Line(<<"M","c">>, <<"X">>, <<"3","0","0">>, <<"3">>)>>

\* averages A=10, B=5, C=20, D=1, E=15, F=8
RankExample == <<Line(<<"A">>, <<"X">>, <<"1">>, <<"1","0">>), Line(<<"B">>, <<"X">>, <<"1">>, <<"5">>), Line(<<"C">>, <<"X">>, <<"1">>, <<"2","0">>), Line(<<"D">>, <<"X">>, <<"1">>, <<"1">>), Line(<<"E">>, <<"X">>, <<"1">>, <<"1","5">>), Line(<<"F">>, <<"X">>, <<"1">>, <<"8">>)>>

AggInputs == {ProfileLines(profile) : profile \in ProfileChoices} \cup {StatsExample, RankExample}

InitAgg == /\ csv \in {File(lines) : lines \in AggInputs}
           /\ db = NoTable
           /\ out_writable = TRUE
           /\ InitLocals

SpecAgg == InitAgg /\ [][Next]_vars

(***************************************************************************)
(* Inputs: the runs of main(), with the files as main() can find them.     *)
(***************************************************************************)
\* files of the pipeline's inputs hold at most MaxRows records
MaxRows == 2

LinePool == {Line(<<"A">>, <<"C","h","i","c","k","e","n"," ","B","u","r","g","e","r">>, <<"1","0","0">>, <<"1","0">>), Line(<<"B">>, <<"S","i","d","e"," ","S","a","l","a","d">>, <<"n","/","a">>, <<"2","0">>), Line(<<"A">>, <<"C","a","k","e">>, <<"3","0","0">>, <<"x">>), Line(<<"B">>, <<"B","e","e","f"," ","P","i","z","z","a">>, <<"2","0","0">>, <<"3","0">>)}

MainInputs == UNION {[1..n -> LinePool] : n \in 0..MaxRows}

\* the table a previous run left in the database file
OldRows == read_csv(<<Line(<<"O","l","d">>, <<"P","o","r","k"," ","S","a","n","d","w","i","c","h">>, <<"9","0","0">>, <<"9","0">>)>>)

Init == /\ csv \in {Missing} \cup {File(lines) : lines \in MainInputs}
        /\ db \in {NoTable, Table(OldRows)}
        /\ out_writable \in BOOLEAN
        /\ InitLocals

Spec == Init /\ [][Next]_vars

(***************************************************************************)
(* What the statements below are written in.                               *)
(***************************************************************************)
\* the pipeline is past the stage named
Past(stage) == LET order == <<"create", "read", "stats", "rank", "plot", "categorize", "subcategory", "export", "done">> IN \E a, b \in 1..Len(order) : order[a] = stage /\ order[b] = pc /\ a < b

\* character c is letter k in either case
SameLetter(c, k) == c = k \/ \E n \in 1..Len(UpperChars) : UpperChars[n] = c /\ LowerChars[n] = k

\* keyword kw occurs in name, whatever the case of the name's letters
Occurs(kw, name) == \E i \in 1..Len(name) : i + Len(kw) - 1 <= Len(name) /\ \A j \in 1..Len(kw) : SameLetter(name[i + j - 1], kw[j])

\* the keyword groups in priority order
KeywordGroups == <<[label |-> <<"M","a","i","n">>, keywords |-> {<<"b","u","r","g","e","r">>, <<"s","a","n","d","w","i","c","h">>, <<"p","i","z","z","a">>}], [label |-> <<"S","i","d","e">>, keywords |-> {<<"f","r","i","e","s">>, <<"s","a","l","a","d">>}], [label |-> <<"D","e","s","s","e","r","t">>, keywords |-> {<<"i","c","e"," ","c","r","e","a","m">>, <<"c","a","k","e">>}]>>

MatchingGroups(name) == {g \in 1..Len(KeywordGroups) : \E kw \in KeywordGroups[g].keywords : Occurs(kw, name)}

ExpectedCategory(name) == IF MatchingGroups(name) = {} THEN <<"O","t","h","e","r">> ELSE KeywordGroups[CHOOSE g \in MatchingGroups(name) : \A h \in MatchingGroups(name) : g <= h].label

\* the protein labels in their fixed order
ProteinTable == <<[label |-> <<"C","h","i","c","k","e","n">>, keyword |-> <<"c","h","i","c","k","e","n">>], [label |-> <<"B","e","e","f">>, keyword |-> <<"b","e","e","f">>], [label |-> <<"S","e","a","f","o","o","d">>, keyword |-> <<"s","e","a","f","o","o","d">>], [label |-> <<"P","o","r","k">>, keyword |-> <<"p","o","r","k">>]>>

RECURSIVE MatchedLabels(_, _)
MatchedLabels(name, k) == IF k > Len(ProteinTable) THEN <<>> ELSE (IF Occurs(ProteinTable[k].keyword, name) THEN <<ProteinTable[k].label>> ELSE <<>>) \o MatchedLabels(name, k + 1)

ExpectedLabels(name) == IF MatchedLabels(name, 1) = <<>> THEN <<<<"O","t","h","e","r">>>> ELSE MatchedLabels(name, 1)

\* the record set as it was loaded
Loaded == db.rows

\* the frame main() classifies holds the loaded records, one row each
ClassifiedAll(frame) == IsFrame(frame) /\ Len(frame.rows) = Len(Loaded) /\ \A i \in 1..Len(Loaded) : frame.rows[i].item = Loaded[i].item /\ frame.rows[i].restaurant = Loaded[i].restaurant

(***************************************************************************)
(* The classifier.                                                         *)
(***************************************************************************)
\* C1: a Main record's sub_category is exactly the labels among Chicken, Beef,
\* Seafood, Pork whose keyword occurs in the lower-cased name, in that order,
\* and Other if and only if none of the four occurs.
SubcategoryIsMatchedLabels == (Past("subcategory") /\ IsFrame(categorized_data)) => \A i \in 1..Len(categorized_data.rows) : categorized_data.rows[i].category = <<"M","a","i","n">> => categorized_data.rows[i].sub_category = join(<<",">>, ExpectedLabels(categorized_data.rows[i].item))

\* C2: each item gets the category of the first group, in the order Main, Side,
\* Dessert, one of whose keywords occurs in its name in any case, and Other
\* when no group has one.
CategoryIsFirstMatchingGroup == (Past("categorize") /\ db.tag = "Table" /\ Len(Loaded) > 0) => ClassifiedAll(categorized_data) /\ \A i \in 1..Len(Loaded) : categorized_data.rows[i].category = ExpectedCategory(Loaded[i].item)

\* a name with a Main keyword and a Dessert keyword, in mixed case, made Main
BurgerAndCakeIsMain == Past("categorize") /\ IsFrame(categorized_data) /\ \E i \in 1..Len(categorized_data.rows) : Occurs(<<"b","u","r","g","e","r">>, categorized_data.rows[i].item) /\ Occurs(<<"c","a","k","e">>, categorized_data.rows[i].item) /\ categorized_data.rows[i].item # lower(categorized_data.rows[i].item) /\ categorized_data.rows[i].category = <<"M","a","i","n">>

\* C3: after both classifier stages every record has one category out of Main,
\* Side, Dessert, Other, and its sub_category is empty if and only if the
\* category is not Main.
SubcategoryEmptyIffNotMain == (Past("subcategory") /\ IsFrame(categorized_data)) => \A i \in 1..Len(categorized_data.rows) : categorized_data.rows[i].category \in {<<"M","a","i","n">>, <<"S","i","d","e">>, <<"D","e","s","s","e","r","t">>, <<"O","t","h","e","r">>} /\ (categorized_data.rows[i].sub_category = <<>> <=> categorized_data.rows[i].category # <<"M","a","i","n">>)

\* a Main record without a protein keyword fell back to Other, next to a record
\* that is not Main and has no sub_category
MainFallsBackToOther == Past("subcategory") /\ IsFrame(categorized_data) /\ \E i, j \in 1..Len(categorized_data.rows) : categorized_data.rows[i].category = <<"M","a","i","n">> /\ categorized_data.rows[i].sub_category = <<"O","t","h","e","r">> /\ categorized_data.rows[j].category = <<"S","i","d","e">> /\ categorized_data.rows[j].sub_category = <<>>

(***************************************************************************)
(* The aggregator.                                                         *)
(***************************************************************************)
Restaurants == {Loaded[i].restaurant : i \in 1..Len(Loaded)}

\* the rows of a restaurant, by exact equality of the name
RowsOf(r) == {i \in 1..Len(Loaded) : Loaded[i].restaurant = r}

RECURSIVE Total(_, _)
\* the sum of column col over the rows of index set S
Total(S, col) == IF S = {} THEN 0 ELSE LET i == CHOOSE i \in S : TRUE IN Loaded[i][col].v + Total(S \ {i}, col)

\* fraction f is the mean of column col over the rows of restaurant r
IsMeanOf(f, r, col) == f.den > 0 /\ f.num * Cardinality(RowsOf(r)) = f.den * Total(RowsOf(r), col)

\* the mean of restaurant a is below that of restaurant b
MeanBelow(a, b, col) == Total(RowsOf(a), col) * Cardinality(RowsOf(b)) < Total(RowsOf(b), col) * Cardinality(RowsOf(a))

Ranked == ranked_restaurants.rows

RankedNames == {Ranked[k].restaurant : k \in 1..Len(Ranked)}

NumericLoaded(col) == db.tag = "Table" /\ \A i \in 1..Len(Loaded) : Loaded[i][col].t = "num"

\* C7: the ranking has one entry for each of the min(5, number of restaurants)
\* restaurants of lowest average total_carb, each with its mean, in ascending
\* order of the mean, and no restaurant left out has a lower mean than one
\* that is in.
RankingIsLowestFive == (Past("rank") /\ NumericLoaded("total_carb")) => (IsFrame(ranked_restaurants) /\ Len(Ranked) = (IF Cardinality(Restaurants) < 5 THEN Cardinality(Restaurants) ELSE 5) /\ Cardinality(RankedNames) = Len(Ranked) /\ RankedNames \subseteq Restaurants /\ (\A k \in 1..Len(Ranked) : IsMeanOf(Ranked[k].total_carb, Ranked[k].restaurant, "total_carb")) /\ (\A k, m \in 1..Len(Ranked) : k < m => ~MeanBelow(Ranked[m].restaurant, Ranked[k].restaurant, "total_carb")) /\ (\A left \in Restaurants \ RankedNames : \A kept \in RankedNames : ~MeanBelow(left, kept, "total_carb")))

\* averages A=10, B=5, C=20, D=1, E=15, F=8 ranked as D, B, F, A, E
RankExampleRanked == Past("rank") /\ IsFrame(ranked_restaurants) /\ Cardinality(Restaurants) = 6 /\ Ranked = <<[restaurant |-> <<"D">>, total_carb |-> [num |-> 1, den |-> 1]], [restaurant |-> <<"B">>, total_carb |-> [num |-> 5, den |-> 1]], [restaurant |-> <<"F">>, total_carb |-> [num |-> 8, den |-> 1]], [restaurant |-> <<"A">>, total_carb |-> [num |-> 10, den |-> 1]], [restaurant |-> <<"E">>, total_carb |-> [num |-> 15, den |-> 1]]>>

Stats == calorie_stats.rows

\* row holds the mean, the least and the greatest calories of its restaurant
StatsRowRight(row) == (IsMeanOf(row.mean, row.restaurant, "calories")) /\ (\E i \in RowsOf(row.restaurant) : Loaded[i].calories.v = row.min) /\ (\A i \in RowsOf(row.restaurant) : Loaded[i].calories.v >= row.min) /\ (\E i \in RowsOf(row.restaurant) : Loaded[i].calories.v = row.max) /\ (\A i \in RowsOf(row.restaurant) : Loaded[i].calories.v <= row.max)

\* C8: the statistics have one entry per distinct restaurant name, compared
\* exactly, with the mean, the minimum and the maximum of calories over that
\* restaurant's records; no records give no entries and no failure.
StatsPerRestaurant == (Past("stats") /\ NumericLoaded("calories")) => (IsFrame(calorie_stats) /\ Len(Stats) = Cardinality(Restaurants) /\ {Stats[k].restaurant : k \in 1..Len(Stats)} = Restaurants /\ \A k \in 1..Len(Stats) : StatsRowRight(Stats[k]))

\* one restaurant with calories 100, 200, 300: mean 200, min 100, max 300
StatsExampleComputed == Past("stats") /\ IsFrame(calorie_stats) /\ Len(Loaded) = 3 /\ Stats = <<[restaurant |-> <<"M","c">>, mean |-> [num |-> 200, den |-> 1], min |-> 100, max |-> 300]>>

\* C9: of two restaurants with equal average the one with the smaller name
\* comes first in the ranking, and a tie across the cut-off keeps the smaller
\* names.
RankingTiesByName == (Past("rank") /\ NumericLoaded("total_carb")) => ((\A k, m \in 1..Len(Ranked) : (k < m /\ ~MeanBelow(Ranked[k].restaurant, Ranked[m].restaurant, "total_carb")) => str_less(Ranked[k].restaurant, Ranked[m].restaurant)) /\ (\A left \in Restaurants \ RankedNames : \A kept \in RankedNames : ~MeanBelow(kept, left, "total_carb") => str_less(kept, left)))

(***************************************************************************)
(* The run of main().                                                      *)
(***************************************************************************)
\* the call of op ended in its except clause
Failed(op) == \E k \in 1..Len(log) : log[k] = Error(op)

\* the call of op is over
Called(op) == \E k \in 1..Len(log) : log[k].op = op

\* what each call handed back to main()
Returned == [create_database |-> create_ret, read_data_from_database |-> data, calculate_calorie_stats |-> calorie_stats, rank_restaurants_by_carbs |-> ranked_restaurants, plot_top_restaurants_chart |-> plot_ret, categorize_food_items |-> categorized_data, add_subcategory |-> categorized_data, export_categorized_data_to_csv |-> export_ret]

\* the kind of value each operation returns when it succeeds
SuccessTag == [create_database |-> "None", read_data_from_database |-> "DataFrame", calculate_calorie_stats |-> "DataFrame", rank_restaurants_by_carbs |-> "DataFrame", plot_top_restaurants_chart |-> "None", categorize_food_items |-> "DataFrame", add_subcategory |-> "DataFrame", export_categorized_data_to_csv |-> "None"]

\* C4: when create_database or read_data_from_database fails, the run ends
\* there: no later stage is executed.
LoadFailureEndsRun == \A k \in 1..Len(log) : (log[k] = Error("create_database") \/ log[k] = Error("read_data_from_database")) => Len(log) = k

\* C5: with a non-numeric calories value in the record set,
\* calculate_calorie_stats hands its caller a DataError, not statistics and
\* not an empty or undefined result.
NonNumericCaloriesIsDataError == (Past("stats") /\ db.tag = "Table" /\ Called("read_data_from_database") /\ ~NumericLoaded("calories")) => calorie_stats.tag = "DataError"

\* C6: what a failed operation hands its caller differs from everything the
\* operation returns when it succeeds.
FailureDiffersFromSuccess == \A k \in 1..Len(log) : log[k].level = "ERROR" => Returned[log[k].op].tag # SuccessTag[log[k].op]

\* C10: when an aggregation fails on a non-numeric value, the classifier
\* stages still classify every record, with the category and sub_category
\* that the records get when the aggregations succeed.
AggregationFailed == (Failed("calculate_calorie_stats") \/ Failed("rank_restaurants_by_carbs")) /\ ~Failed("read_data_from_database") /\ Len(Loaded) > 0

ClassificationSurvivesDataError == (pc = "done" /\ AggregationFailed) => (ClassifiedAll(categorized_data) /\ \A i \in 1..Len(Loaded) : (categorized_data.rows[i].category = categorize_item(Loaded[i]) /\ categorized_data.rows[i].sub_category = get_subcategory(categorized_data.rows[i])))

\* the statistics failed on a non-numeric value and the records are classified
ClassifiedAfterDataError == pc = "done" /\ AggregationFailed /\ IsNone(calorie_stats) /\ IsFrame(categorized_data) /\ \E i \in 1..Len(categorized_data.rows) : categorized_data.rows[i].category = <<"M","a","i","n">> /\ categorized_data.rows[i].sub_category # <<>>

====
